---- MODULE Spec2Model ----
(***************************************************************************)
(* Model of src/Examples.ts: the template resolver of the scaffolding CLI. *)
(*                                                                         *)
(* Strings are sequences of one-character strings.  A few fixed pieces of  *)
(* text that the code only ever copies (origins, API prefixes) are kept as *)
(* single tokens.  One behaviour is one call of resolveTemplateArgAsync;   *)
(* an action is the code that runs between two suspension points (await).  *)
(* The remote hosts, the URL constructor's failure mode and the tar stream *)
(* are the environment: their answers are drawn with \E.                   *)
(***************************************************************************)
EXTENDS Integers, Sequences, FiniteSets, TLC

\* ---------------------------------------------------------------- bounds
\* Most path segments after /{owner}/{repo} in a template URL.
MaxRest == 4

\* ------------------------------------------------------ JavaScript values
\* The value `undefined` where a string is expected.
Undefined == <<"#undefined">>

\* `undefined` where an object (RepoInfo, URL, response) is expected.
UndefinedRec == [tag |-> "undefined"]

\* JavaScript truthiness of a string-or-undefined value.
Truthy(s) == s # Undefined /\ s # <<>>

\* Interpolation `${s}` inside a template literal.
Str(s) == IF s = Undefined THEN <<"u","n","d","e","f","i","n","e","d">> ELSE s

\* String.prototype.split('/').
RECURSIVE Split(_)
Split(s) ==
  IF \E i \in 1..Len(s) : s[i] = "/"
  THEN LET i == CHOOSE k \in 1..Len(s) :
                  s[k] = "/" /\ \A j \in 1..(k-1) : s[j] # "/"
       IN  <<SubSeq(s, 1, i-1)>> \o Split(SubSeq(s, i+1, Len(s)))
  ELSE <<s>>

\* Array.prototype.join('/').
RECURSIVE Join(_)
Join(parts) ==
  IF Len(parts) = 0 THEN <<>>
  ELSE IF Len(parts) = 1 THEN parts[1]
  ELSE parts[1] \o <<"/">> \o Join(Tail(parts))

\* Array destructuring: a missing element is undefined.
Elem(parts, i) == IF i <= Len(parts) THEN parts[i] ELSE Undefined

\* examplePath.replace(/^\//, '')
StripLeadingSlash(s) ==
  IF Len(s) > 0 /\ s[1] = "/" THEN Tail(s) ELSE s

\* TRUE iff the literal lit occurs in s at position i.
MatchesAt(s, lit, i) ==
  /\ i + Len(lit) - 1 <= Len(s)
  /\ SubSeq(s, i, i + Len(lit) - 1) = lit

\* s.replace(new RegExp(`/${filePath}|/$`), ''): no g flag, so only the
\* leftmost match is removed; at one position the first alternative wins.
\* (filePath is taken literally: the model's alphabet has no regex
\* metacharacters.)
ReplaceBranchRegex(s, filePath) ==
  LET lit     == <<"/">> \o filePath
      Hit(i)  == MatchesAt(s, lit, i) \/ (s[i] = "/" /\ i = Len(s))
  IN  IF \E i \in 1..Len(s) : Hit(i)
      THEN LET i == CHOOSE k \in 1..Len(s) :
                      Hit(k) /\ \A j \in 1..(k-1) : ~Hit(j)
               n == IF MatchesAt(s, lit, i) THEN Len(lit) ELSE 1
           IN  SubSeq(s, 1, i-1) \o SubSeq(s, i+n, Len(s))
      ELSE s

\* encodeURIComponent over the model's alphabet: only '/' is escaped.
RECURSIVE encodeURIComponent(_)
encodeURIComponent(s) ==
  IF s = <<>> THEN <<>>
  ELSE (IF s[1] = "/" THEN <<"%","2","F">> ELSE <<s[1]>>)
       \o encodeURIComponent(Tail(s))

\* ------------------------------------------------------------ getRepoInfo
\* Mutant of UrlFile: the rest pattern starts one element early.
UrlFile_FromBranch(url) ==
  IF Len(Split(url.pathname)) >= 5
  THEN SubSeq(Split(url.pathname), 5, Len(Split(url.pathname)))
  ELSE <<>>

\* const [, username, name, t, _branch, ...file] = url.pathname.split('/')
PathParts(url) == Split(url.pathname)
UrlUsername(url) == Elem(PathParts(url), 2)
UrlName(url) == Elem(PathParts(url), 3)
UrlT(url) == Elem(PathParts(url), 4)
UrlBranchSeg(url) == Elem(PathParts(url), 5)
UrlFile(url) ==
  IF Len(PathParts(url)) >= 6
  THEN SubSeq(PathParts(url), 6, Len(PathParts(url)))
  ELSE <<>>

\* const filePath = examplePath ? examplePath.replace(/^\//, '') : file.join('/')
GetFilePath(url, examplePath) ==
  IF Truthy(examplePath) THEN StripLeadingSlash(examplePath)
  ELSE Join(UrlFile(url))

\* const branch = examplePath ? `${_branch}/${file.join('/')}`.replace(...) : _branch
GetBranch(url, examplePath) ==
  IF Truthy(examplePath)
  THEN ReplaceBranchRegex(Str(UrlBranchSeg(url)) \o <<"/">> \o Join(UrlFile(url)),
                          GetFilePath(url, examplePath))
  ELSE UrlBranchSeg(url)

TreeMarker == <<"t","r","e","e">>

RepoInfo(username, name, branch, filePath) ==
  [tag |-> "RepoInfo", username |-> username, name |-> name,
   branch |-> branch, filePath |-> filePath]

\* if (username && name && branch && t === 'tree') return {...}; return undefined
GetRepoInfoTree(url, examplePath) ==
  IF /\ Truthy(UrlUsername(url))
     /\ Truthy(UrlName(url))
     /\ Truthy(GetBranch(url, examplePath))
     /\ UrlT(url) = TreeMarker
  THEN RepoInfo(UrlUsername(url), UrlName(url),
                GetBranch(url, examplePath), GetFilePath(url, examplePath))
  ELSE UndefinedRec

\* if (infoResponse.statusCode !== 200) return;
\* return { username, name, branch: info['default_branch'], filePath }
GetRepoInfoDefault(url, examplePath, res) ==
  IF res.statusCode # 200 THEN UndefinedRec
  ELSE RepoInfo(UrlUsername(url), UrlName(url),
                res.body.default_branch, GetFilePath(url, examplePath))

\* `https://api.github.com/repos/${username}/${name}`
RepoApiUrl(username, name) ==
  <<"https://api.github.com/repos/">> \o Str(username) \o <<"/">> \o Str(name)

\* ------------------------------------------------------- existence probes
\* statusCode of a settled value that carries none (a network-level error).
NoStatus == 0

\* Mutant of isUrlOk: any fulfilled request counts as found.
isUrlOk_AnyFulfilled(res) == res.settled = "fulfilled"

\* return res.statusCode === 200  (res is the response or the caught error)
isUrlOk(res) == res.statusCode = 200

\* contentsUrl + packagePath + `?ref=${branch}`
hasRepoUrl(info) ==
  RepoApiUrl(info.username, info.name) \o <<"/contents">>
    \o (IF Truthy(info.filePath) THEN <<"/">> \o info.filePath ELSE <<>>)
    \o <<"/package.json">> \o <<"?ref=">> \o Str(info.branch)

\* `https://api.github.com/repos/expo/examples/contents/${encodeURIComponent(name)}/package.json`
hasExampleUrl(name) ==
  <<"https://api.github.com/repos/expo/examples/contents/">>
    \o encodeURIComponent(name) \o <<"/package.json">>

\* ------------------------------------------------------ download + extract
\* const strip = filePath ? filePath.split('/').length + 1 : 1
RepoStrip(filePath) ==
  IF Truthy(filePath) THEN Len(Split(filePath)) + 1 ELSE 1

\* `${name}-${branch}${filePath ? `/${filePath}` : ''}`
RepoEntry(info) ==
  Str(info.name) \o <<"-">> \o Str(info.branch)
    \o (IF Truthy(info.filePath) THEN <<"/">> \o info.filePath ELSE <<>>)

\* The pipeline downloadAndExtractRepo sets up.
downloadAndExtractRepo(info) ==
  [kind  |-> "repo",
   url   |-> <<"https://codeload.github.com/">> \o Str(info.username) \o <<"/">>
               \o Str(info.name) \o <<"/tar.gz/">> \o Str(info.branch),
   strip |-> RepoStrip(info.filePath),
   files |-> <<RepoEntry(info)>>]

\* The pipeline downloadAndExtractExample sets up.
downloadAndExtractExample(name) ==
  [kind  |-> "example",
   url   |-> <<"https://codeload.github.com/expo/examples/tar.gz/master">>,
   strip |-> 2,
   files |-> << <<"examples-master", "/">> \o name >>]

\* Mutant of Dispatch: the examples archive is fetched whatever was selected.
Dispatch_AlwaysExample(info, tmpl) == downloadAndExtractExample(tmpl)

\* if (repoInfo) downloadAndExtractRepo(...) else downloadAndExtractExample(...)
Dispatch(info, tmpl) ==
  IF info # UndefinedRec THEN downloadAndExtractRepo(info)
  ELSE downloadAndExtractExample(tmpl)

\* Mutant of ensureProjectHasGitIgnore: the default file is always copied.
ensureProjectHasGitIgnore_Overwrite(ignore) == "default"

\* if (!fs.existsSync(ignorePath)) fs.copyFileSync(default, ignorePath)
ensureProjectHasGitIgnore(ignore) ==
  IF ignore = "absent" THEN "default" ELSE ignore

\* ----------------------------------------------------------------- inputs
GitHubOrigin == "https://github.com"
Origins == {GitHubOrigin, "https://gitlab.com", "http://github.com"}

\* Mutant of OriginOk: the scheme is not compared.
OriginOk_AnyScheme(origin) == origin \in {GitHubOrigin, "http://github.com"}

\* repoUrl.origin !== 'https://github.com'
OriginOk(origin) == origin = GitHubOrigin

\* new URL(template): a template that starts with an origin parses; the
\* path of a URL is never empty.  Anything else is ERR_INVALID_URL.
IsUrl(tmpl) == Len(tmpl) > 0 /\ tmpl[1] \in Origins
NewURL(tmpl) ==
  [tag |-> "URL", origin |-> tmpl[1],
   pathname |-> IF Len(tmpl) = 1 THEN <<"/">> ELSE Tail(tmpl)]

Segs == {<<>>, <<"a">>, <<"a","b">>, TreeMarker}
Owners == {<<>>, <<"o">>}
Repos == {<<>>, <<"r">>}
RestLists == UNION {[1..n -> Segs] : n \in 0..MaxRest}
UrlPaths ==
  {<<"/">> \o o : o \in Owners}
    \cup {<<"/">> \o Join(<<o, r>> \o rest) :
            o \in Owners, r \in Repos, rest \in RestLists}

\* Longest example name.
MaxNameLen == 3
Names == UNION {[1..n -> {"a", "/"}] : n \in 1..MaxNameLen}

Templates ==
  {<<>>} \cup Names
    \cup {<<GitHubOrigin>> \o p : p \in UrlPaths}
    \cup {<<o, "/", "o", "/", "r">> : o \in Origins \ {GitHubOrigin}}

TemplatePaths ==
  {Undefined, <<>>, <<"a">>, <<"/","a">>, <<"a","/">>, <<"a","b">>}

\* What a probe can settle with: got fulfils on 2xx, rejects otherwise.
ProbeResponses ==
  {[settled |-> "fulfilled", statusCode |-> 200],
   [settled |-> "fulfilled", statusCode |-> 204],
   [settled |-> "rejected",  statusCode |-> 404],
   [settled |-> "rejected",  statusCode |-> NoStatus]}

\* What the repository-metadata lookup can settle with.
LookupResponses ==
  {[settled |-> "fulfilled", statusCode |-> 200,
    body |-> [json |-> TRUE, default_branch |-> b]] :
       b \in {<<"m">>, <<"m","/","x">>, <<>>, Undefined}}
  \cup {[settled |-> "fulfilled", statusCode |-> 200,
         body |-> [json |-> FALSE, default_branch |-> Undefined]]}
  \cup {[settled |-> "rejected", statusCode |-> c,
         body |-> [json |-> FALSE, default_branch |-> Undefined]] :
       c \in {404, NoStatus}}

\* ------------------------------------------------------------------ state
VARIABLES
  template,      \* argument: the template identifier ('' when absent)
  templatePath,  \* argument: the explicit subpath, or undefined
  pc,            \* where the call of resolveTemplateArgAsync stands
  parseError,    \* error.code caught around new URL(template)
  repoUrl,       \* local repoUrl
  repoInfo,      \* local repoInfo
  net,           \* requests issued so far, each with its settlement
  steps,         \* the collaborators called so far, in call order
  oraErrors,     \* messages passed to oraInstance.error
  oraText,       \* oraInstance.text
  exitCode,      \* <<c>> once process.exit(c) was called
  extract,       \* the tar.extract pipeline that was set up
  gitignore,     \* {projectRoot}/.gitignore: absent, app (extracted), default
  result         \* "true" once the call returned true

vars == <<template, templatePath, pc, parseError, repoUrl, repoInfo, net, steps,
          oraErrors, oraText, exitCode, extract, gitignore, result>>

Init ==
  /\ template \in Templates
  /\ templatePath \in TemplatePaths
  /\ pc = "start"
  /\ parseError = "none"
  /\ repoUrl = UndefinedRec
  /\ repoInfo = UndefinedRec
  /\ net = <<>>
  /\ steps = <<>>
  /\ oraErrors = <<>>
  /\ oraText = "idle"
  /\ exitCode = <<>>
  /\ extract = UndefinedRec
  /\ gitignore = "absent"
  /\ result = "pending"

Pending(op, url) == [op |-> op, url |-> url, res |-> UndefinedRec]
Settle(res) == [net EXCEPT ![Len(net)].res = res]

\* oraInstance.error(msg); process.exit(1)
Fatal(msg, netNow, stepsNow) ==
  /\ oraErrors' = Append(oraErrors, msg)
  /\ exitCode' = <<1>>
  /\ pc' = "exited"
  /\ net' = netNow
  /\ steps' = stepsNow
  /\ UNCHANGED <<oraText, extract, gitignore, result>>

\* Issue one request and suspend until it settles.
Await(op, url, at, stepsNow) ==
  /\ net' = Append(net, Pending(op, url))
  /\ pc' = at
  /\ steps' = stepsNow
  /\ UNCHANGED <<oraErrors, oraText, exitCode, extract, gitignore, result>>

\* Lines 194-206: report progress, start the matching pipeline, suspend.
StartDownload(info, netNow, stepsNow) ==
  LET x == Dispatch(info, template) IN
  /\ oraText' = x.kind
  /\ extract' = x
  /\ net' = Append(netNow, Pending(x.kind, x.url))
  /\ steps' = Append(stepsNow, "download")
  /\ pc' = "download"
  /\ UNCHANGED <<oraErrors, exitCode, gitignore, result>>

\* Lines 133-159 / 181: from the call to the first suspension point.
ResolveStart ==
  /\ pc = "start"
  /\ UNCHANGED <<template, templatePath>>
  /\ \E fault \in BOOLEAN :
       IF ~Truthy(template)
       THEN /\ ~fault
            /\ UNCHANGED <<parseError, repoUrl, repoInfo>>
            /\ StartDownload(repoInfo, net, steps)
       ELSE IF fault
       THEN \* new URL threw something other than ERR_INVALID_URL
            /\ parseError' = "ERR_OTHER"
            /\ UNCHANGED <<repoUrl, repoInfo>>
            /\ Fatal("parse", net, <<"parse">>)
       ELSE IF IsUrl(template)
       THEN LET url == NewURL(template) IN
            /\ UNCHANGED parseError
            /\ repoUrl' = url
            /\ IF ~OriginOk(url.origin)
               THEN /\ UNCHANGED repoInfo
                    /\ Fatal("origin", net, <<"parse">>)
               ELSE IF UrlT(url) = Undefined
               THEN /\ UNCHANGED repoInfo
                    /\ Await("lookup", RepoApiUrl(UrlUsername(url), UrlName(url)),
                             "lookup", <<"parse", "getRepoInfo">>)
               ELSE /\ repoInfo' = GetRepoInfoTree(url, templatePath)
                    /\ pc' = "gotRepoInfo"
                    /\ steps' = <<"parse", "getRepoInfo">>
                    /\ UNCHANGED <<net, oraErrors, oraText, exitCode, extract,
                                   gitignore, result>>
       ELSE \* ERR_INVALID_URL: the template is an example name
            /\ parseError' = "ERR_INVALID_URL"
            /\ UNCHANGED <<repoUrl, repoInfo>>
            /\ Await("hasExample", hasExampleUrl(template), "hasExample",
                     <<"parse", "hasExample">>)

\* Lines 99-106: the metadata lookup of getRepoInfo settles.
GetRepoInfoLookupDone ==
  /\ pc = "lookup"
  /\ UNCHANGED <<template, templatePath, parseError, repoUrl, oraErrors, oraText,
                 exitCode, extract, gitignore, result, steps>>
  /\ \E res \in LookupResponses :
       /\ net' = Settle(res)
       /\ IF res.statusCode = 200 /\ ~res.body.json
          THEN \* JSON.parse throws: getRepoInfo rejects, and so does the call
               /\ pc' = "rejected"
               /\ UNCHANGED repoInfo
          ELSE /\ repoInfo' = GetRepoInfoDefault(repoUrl, templatePath, res)
               /\ pc' = "gotRepoInfo"

\* Lines 159-170: getRepoInfo has returned.
ResolveAfterGetRepoInfo ==
  /\ pc = "gotRepoInfo"
  /\ UNCHANGED <<template, templatePath, parseError, repoUrl, repoInfo>>
  /\ IF repoInfo = UndefinedRec
     THEN Fatal("invalidGitHubUrl", net, steps)
     ELSE Await("hasRepo", hasRepoUrl(repoInfo), "hasRepo",
                Append(steps, "hasRepo"))

\* Lines 88-90, 170-199: the probe of hasRepo settles.
HasRepoDone ==
  /\ pc = "hasRepo"
  /\ UNCHANGED <<template, templatePath, parseError, repoUrl, repoInfo>>
  /\ \E res \in ProbeResponses :
       IF ~isUrlOk(res)
       THEN Fatal("noRepository", Settle(res), steps)
       ELSE StartDownload(repoInfo, Settle(res), steps)

\* Lines 88-90, 181-205: the probe of hasExample settles.
HasExampleDone ==
  /\ pc = "hasExample"
  /\ UNCHANGED <<template, templatePath, parseError, repoUrl, repoInfo>>
  /\ \E res \in ProbeResponses :
       IF ~isUrlOk(res)
       THEN Fatal("noExample", Settle(res), steps)
       ELSE StartDownload(repoInfo, Settle(res), steps)

\* Lines 232-235 / 239-242: the pipeline settles.  On success the archive may
\* or may not have supplied a .gitignore; a failure rejects the call.
DownloadDone ==
  /\ pc = "download"
  /\ UNCHANGED <<template, templatePath, parseError, repoUrl, repoInfo, steps,
                 oraErrors, oraText, exitCode, extract, result>>
  /\ \E ok \in BOOLEAN, supplied \in BOOLEAN :
       IF ok
       THEN /\ net' = Settle([settled |-> "fulfilled", statusCode |-> NoStatus])
            /\ gitignore' = IF supplied THEN "app" ELSE gitignore
            /\ pc' = "extracted"
       ELSE /\ ~supplied
            /\ net' = Settle([settled |-> "rejected", statusCode |-> NoStatus])
            /\ UNCHANGED gitignore
            /\ pc' = "rejected"

\* Lines 208-210: the finisher, then return true.
Finish ==
  /\ pc = "extracted"
  /\ UNCHANGED <<template, templatePath, parseError, repoUrl, repoInfo, net,
                 oraErrors, oraText, exitCode, extract>>
  /\ gitignore' = ensureProjectHasGitIgnore(gitignore)
  /\ steps' = Append(steps, "finisher")
  /\ result' = "true"
  /\ pc' = "done"

Next ==
  \/ ResolveStart
  \/ GetRepoInfoLookupDone
  \/ ResolveAfterGetRepoInfo
  \/ HasRepoDone
  \/ HasExampleDone
  \/ DownloadDone
  \/ Finish

Spec == Init /\ [][Next]_vars

TypeOK ==
  /\ pc \in {"start", "lookup", "gotRepoInfo", "hasRepo", "hasExample",
             "download", "extracted", "done", "exited", "rejected"}
  /\ parseError \in {"none", "ERR_INVALID_URL", "ERR_OTHER"}
  /\ gitignore \in {"absent", "app", "default"}
  /\ result \in {"pending", "true"}

\* ----------------------------------------------------- shared vocabulary
Downloads == {i \in DOMAIN net : net[i].op \in {"repo", "example"}}
Probes == {i \in DOMAIN net : net[i].op \in {"hasRepo", "hasExample"}}
Lookups == {i \in DOMAIN net : net[i].op = "lookup"}
Settled(i) == net[i].res # UndefinedRec
Answered200(i) ==
  Settled(i) /\ net[i].res.settled = "fulfilled" /\ net[i].res.statusCode = 200

\* getRepoInfo was called and has returned (a value or undefined).
GetRepoInfoReturned ==
  /\ repoUrl # UndefinedRec
  /\ repoUrl.origin = GitHubOrigin
  /\ pc \in {"gotRepoInfo", "hasRepo", "download", "extracted", "done", "exited"}

\* The resolver reported one message and terminated the process with code 1.
ReportedAndExited ==
  /\ pc = "exited"
  /\ Len(oraErrors) = 1
  /\ exitCode = <<1>>
  /\ result # "true"

\* Number of '/' characters of s.
SlashCount(s) == Cardinality({i \in 1..Len(s) : s[i] = "/"})

\* Number of path components of s: maximal runs of non-'/' characters.
ComponentCount(s) ==
  Cardinality({i \in 1..Len(s) :
                 s[i] # "/" /\ (i = 1 \/ s[i-1] = "/")})

\* ------------------------------------------------------------------- C1
\* C1: with a non-empty template, once a download has started exactly one of
\* {reference, example name} is selected, the selection was validated by a
\* probe of its own kind that was answered 200 before the download started,
\* the pipeline is the one of the selection, and there is one download only.
C1_ExclusiveValidatedSelection ==
  (Truthy(template) /\ Downloads # {}) =>
    LET refSel  == repoInfo # UndefinedRec
        nameSel == parseError = "ERR_INVALID_URL"
        d       == CHOOSE i \in Downloads : TRUE
    IN  /\ Cardinality(Downloads) = 1
        /\ refSel # nameSel
        /\ refSel =>
             /\ net[d].op = "repo"
             /\ extract.kind = "repo"
             /\ extract.files = <<RepoEntry(repoInfo)>>
             /\ \E i \in 1..(d-1) :
                  /\ net[i].op = "hasRepo"
                  /\ net[i].url = hasRepoUrl(repoInfo)
                  /\ Answered200(i)
             /\ \A i \in Probes : net[i].op = "hasRepo"
        /\ nameSel =>
             /\ net[d].op = "example"
             /\ extract.kind = "example"
             /\ extract.files = << <<"examples-master", "/">> \o template >>
             /\ \E i \in 1..(d-1) :
                  /\ net[i].op = "hasExample"
                  /\ net[i].url = hasExampleUrl(template)
                  /\ Answered200(i)
             /\ \A i \in Probes : net[i].op = "hasExample"

C1_Witness ==
  /\ Truthy(template)
  /\ pc = "download"
  /\ repoInfo # UndefinedRec
  /\ extract.kind = "repo"

\* ------------------------------------------------------------------- C2
\* C2: with no template identifier the call performs no existence probe, no
\* metadata lookup and no archive download or extraction.
C2_NoTemplateNoNetwork ==
  ~Truthy(template) => (net = <<>> /\ extract = UndefinedRec)

\* ------------------------------------------------------------------- C3
\* The fatal conditions (a)-(d): each one, once the resolver has seen it, ends
\* in one reported message and exit code 1, with no later step.
C3_FatalAtoD ==
  /\ parseError = "ERR_OTHER" => (ReportedAndExited /\ net = <<>>)
  /\ (repoUrl # UndefinedRec /\ repoUrl.origin # GitHubOrigin) =>
       (ReportedAndExited /\ net = <<>>)
  /\ (GetRepoInfoReturned /\ repoInfo = UndefinedRec /\ pc # "gotRepoInfo") =>
       (ReportedAndExited /\ Probes = {} /\ Downloads = {})
  /\ \A i \in Probes :
       (Settled(i) /\ ~Answered200(i)) =>
         (ReportedAndExited /\ Downloads = {} /\ extract = UndefinedRec
            /\ i = Len(net))
  /\ \A i, j \in DOMAIN net : net[i].op = net[j].op => i = j
  /\ ("finisher" \in {steps[k] : k \in DOMAIN steps}) => pc = "done"

DownloadFailed ==
  \E i \in Downloads : Settled(i) /\ net[i].res.settled = "rejected"

\* C3 as claimed: (a)-(d) as above and (e) a failed download also makes the
\* resolver report a message and exit with code 1.
C3_AllFatalExit ==
  /\ C3_FatalAtoD
  /\ DownloadFailed => (ReportedAndExited /\ result # "true")

\* C3 as amended: (a)-(d) report and exit with code 1; (e) a failed download
\* rejects the call instead: no message, no exit code, no finisher, no true.
C3_FatalExitOrReject ==
  /\ C3_FatalAtoD
  /\ DownloadFailed =>
       /\ pc = "rejected"
       /\ oraErrors = <<>>
       /\ exitCode = <<>>
       /\ result # "true"
       /\ "finisher" \notin {steps[k] : k \in DOMAIN steps}
       /\ Cardinality(Downloads) = 1

C3_Witness ==
  /\ DownloadFailed
  /\ Probes # {}

\* ------------------------------------------------------------------- C4
\* C4: a probe is one request; its caller sees true exactly when the remote
\* answered 200 (it goes on to the download), and false for every other
\* settlement, a status-less failure included (it exits); the probe never
\* rejects the call.
C4_ProbeTrueIff200 ==
  /\ Cardinality(Probes) <= 1
  /\ \A i \in Probes :
       Settled(i) =>
         IF Answered200(i)
         THEN /\ Len(net) = i + 1
              /\ net[i+1].op \in {"repo", "example"}
              /\ oraErrors = <<>>
         ELSE /\ Len(net) = i
              /\ pc = "exited"

C4_Witness ==
  \E i \in Probes :
    /\ Settled(i)
    /\ net[i].res.settled = "rejected"
    /\ net[i].res.statusCode = NoStatus
    /\ pc = "exited"

\* ------------------------------------------------------------------- C5
\* Text of the path in front of the branch of a tree URL of owner o, repo r.
TreePrefix == <<"/","o","/","r","/">> \o TreeMarker \o <<"/">>

\* The branch of /o/r/tree/{branch}/{subpath} given the subpath, or <<>>.
BranchBefore(p, sub) ==
  LET suf == <<"/">> \o sub
      n   == Len(p) - Len(TreePrefix) - Len(suf)
  IN  IF /\ n > 0
         /\ SubSeq(p, 1, Len(TreePrefix)) = TreePrefix
         /\ SubSeq(p, Len(p) - Len(suf) + 1, Len(p)) = suf
      THEN SubSeq(p, Len(TreePrefix) + 1, Len(TreePrefix) + n)
      ELSE <<>>

\* A branch name: no empty segment.
WellFormedBranch(b) ==
  /\ b # <<>>
  /\ b[1] # "/"
  /\ b[Len(b)] # "/"
  /\ \A i \in 1..(Len(b)-1) : ~(b[i] = "/" /\ b[i+1] = "/")

\* C5: with an override s on /{owner}/{repo}/tree/{branch}/{s}, the returned
\* branch is the original branch and the returned subpath is s without its
\* leading '/'.
C5_OverrideRecoversBranch ==
  (GetRepoInfoReturned /\ Truthy(templatePath)) =>
    LET sub == StripLeadingSlash(templatePath)
        b   == BranchBefore(repoUrl.pathname, sub)
    IN  (WellFormedBranch(b) /\ WellFormedBranch(sub)) =>
          /\ repoInfo # UndefinedRec
          /\ repoInfo.branch = b
          /\ repoInfo.filePath = sub

\* ------------------------------------------------------------------- C6
\* C6: getRepoInfo returns a reference only with owner, repo and branch all
\* non-empty and, when the path has a third segment, that segment 'tree'.
C6_ReferenceIsComplete ==
  (GetRepoInfoReturned /\ repoInfo # UndefinedRec) =>
    /\ Truthy(repoInfo.username)
    /\ Truthy(repoInfo.name)
    /\ Truthy(repoInfo.branch)
    /\ Len(PathParts(repoUrl)) >= 4 => PathParts(repoUrl)[4] = TreeMarker

\* ------------------------------------------------------------------- C7
\* C7: without an override, /{owner}/{repo}/tree/{branch}/{subpath} with a
\* slash-free branch yields exactly {owner, repo, branch, subpath}, and no
\* lookup is made.
C7_TreeUrlParsesExactly ==
  (GetRepoInfoReturned /\ ~Truthy(templatePath)) =>
    LET p == repoUrl.pathname IN
    \A o \in Owners \ {<<>>}, r \in Repos \ {<<>>}, b \in Segs \ {<<>>},
       k \in 1..Len(p) :
      LET sub == SubSeq(p, k, Len(p)) IN
      (p = <<"/">> \o o \o <<"/">> \o r \o <<"/">> \o TreeMarker \o <<"/">>
             \o b \o <<"/">> \o sub)
        => /\ repoInfo = RepoInfo(o, r, b, sub)
           /\ Lookups = {}

C7_Witness ==
  /\ pc = "gotRepoInfo"
  /\ ~Truthy(templatePath)
  /\ repoUrl.pathname = TreePrefix \o <<"a","b","/","a","/","a","b">>
  /\ repoInfo # UndefinedRec

\* ------------------------------------------------------------------- C8
\* C8: for a repository the strip-count is 1 with an empty subpath and the
\* number of path segments of the subpath plus 1 otherwise; for an example
\* it is 2.
C8_StripFromSegments ==
  extract # UndefinedRec =>
    IF extract.kind = "repo"
    THEN extract.strip = IF repoInfo.filePath = <<>> THEN 1
                         ELSE ComponentCount(repoInfo.filePath) + 1
    ELSE extract.strip = 2

\* ------------------------------------------------------------------- C9
Rank(step) ==
  CASE step = "parse" -> 1
    [] step = "getRepoInfo" -> 2
    [] step \in {"hasRepo", "hasExample"} -> 3
    [] step = "download" -> 4
    [] step = "finisher" -> 5

C9_Order ==
  /\ \A i, j \in DOMAIN steps : i < j => Rank(steps[i]) < Rank(steps[j])
  /\ \A i \in DOMAIN net : ~Settled(i) => i = Len(net)
  /\ ("finisher" \in {steps[k] : k \in DOMAIN steps}) =>
       /\ Downloads # {}
       /\ \A i \in Downloads :
            Settled(i) /\ net[i].res.settled = "fulfilled"
  /\ result = "true" =>
       /\ "finisher" \in {steps[k] : k \in DOMAIN steps}
       /\ gitignore # "absent"
  /\ DownloadFailed =>
       /\ pc = "rejected"
       /\ "finisher" \notin {steps[k] : k \in DOMAIN steps}
       /\ result # "true"

C9_FinisherStep ==
  ("finisher" \notin {steps[k] : k \in DOMAIN steps}
     /\ "finisher" \in {steps'[k] : k \in DOMAIN steps'}) =>
    /\ gitignore # "absent" => gitignore' = gitignore
    /\ gitignore = "absent" => gitignore' = "default"

\* C9: the steps of one call run one after another in the order parse,
\* reference parser, probe, download, finisher; the finisher runs only after
\* a successful download and true is returned only after it; a failed
\* download rejects the call; the finisher keeps an existing .gitignore and
\* creates one otherwise.
C9_SequentialAndFinisher == []C9_Order /\ [][C9_FinisherStep]_vars

C9_Witness ==
  /\ result = "true"
  /\ gitignore = "app"
  /\ steps = <<"parse", "getRepoInfo", "hasRepo", "download", "finisher">>

\* ------------------------------------------------------------------ C10
\* C10: the strip-count of every extraction equals the number of
\* '/'-separated segments of its one allow-list entry.
C10_StripMatchesEntry ==
  extract # UndefinedRec =>
    /\ Len(extract.files) = 1
    /\ extract.strip = SlashCount(extract.files[1]) + 1

====
